---- MODULE Spec2Model ----
(***************************************************************************)
(* Model of the nfc-icu-mcp service (src/main.py): the access gate         *)
(* (APIKeyMiddleware), the routing table, request validation against       *)
(* QuoteRequest, the two tool handlers, the discovery endpoints and the    *)
(* response envelope builder mcp_response.                                 *)
(*                                                                         *)
(* Strings that the code inspects character by character (postal codes,    *)
(* numeric strings, the API key) are sequences of one-character strings.   *)
(* JSON values of a payload are tagged records: Str(s), Num(n), or absent  *)
(* from the payload.  Weights are whole kilograms and money is counted in  *)
(* cents, so that round(x, 2) of the quote arithmetic is exact.            *)
(*                                                                         *)
(* src/main.py line 206 lacks the comma that ends the "summary" entry of   *)
(* the result dictionary; the model is of the program with that comma.     *)
(***************************************************************************)
EXTENDS Integers, Sequences, FiniteSets, TLC

VARIABLES
    API_KEY,  \* the configured credential, read once at start-up
    TOOLS,    \* the tool registry
    pc,       \* per client: idle, or where its request stands
    req,      \* per client: the request in flight
    vinput,   \* per client: the validated QuoteRequest handed to the handler
    log,      \* the responses sent, in the order they left
    issued,   \* how many identifiers uuid4() has yielded
    clock,    \* the latest reading of the clock
    built     \* envelopes built by direct calls of mcp_response

vars == <<API_KEY, TOOLS, pc, req, vinput, log, issued, clock, built>>

(***************************************************************************)
(* Bounds: the clients that hold a request at the same time; the requests  *)
(* received in a behaviour of Spec, SpecValidation and SpecHistory; the    *)
(* requests and direct calls of the builder in one of SpecBuilder; the     *)
(* latest reading of the clock.                                            *)
(***************************************************************************)
NClients == 2
MaxRequests == 2
MaxValidated == 1
MaxHistory == 3
MaxOps == 3
MaxClock == 1

Clients == 1..NClients

(***************************************************************************)
(* Character strings                                                       *)
(***************************************************************************)
Digits == {"0", "1", "2", "3", "4", "5", "6", "7", "8", "9"}
Letters ==
    {"A", "B", "C", "D", "E", "F", "G", "H", "I", "J", "K", "L", "M",
     "N", "O", "P", "Q", "R", "S", "T", "U", "V", "W", "X", "Y", "Z",
     "a", "b", "c", "d", "e", "f", "g", "h", "i", "j", "k", "l", "m",
     "n", "o", "p", "q", "r", "s", "t", "u", "v", "w", "x", "y", "z"}
Whitespace == {" "}

DigitVal(ch) ==
    CASE ch = "0" -> 0 [] ch = "1" -> 1 [] ch = "2" -> 2 [] ch = "3" -> 3
      [] ch = "4" -> 4 [] ch = "5" -> 5 [] ch = "6" -> 6 [] ch = "7" -> 7
      [] ch = "8" -> 8 [] ch = "9" -> 9

RECURSIVE lstrip(_)
lstrip(s) == IF s # <<>> /\ Head(s) \in Whitespace THEN lstrip(Tail(s)) ELSE s

RECURSIVE rstrip(_)
rstrip(s) ==
    IF s # <<>> /\ s[Len(s)] \in Whitespace
    THEN rstrip(SubSeq(s, 1, Len(s) - 1)) ELSE s

\* str.strip()
strip(s) == rstrip(lstrip(s))

AllIn(s, S) == \A i \in 1..Len(s) : s[i] \in S

RECURSIVE DecimalValue(_)
DecimalValue(s) ==
    IF s = <<>> THEN 0
    ELSE 10 * DecimalValue(SubSeq(s, 1, Len(s) - 1)) + DigitVal(s[Len(s)])

(***************************************************************************)
(* CONFIG: API_KEY = os.getenv("API_KEY", "").strip()                      *)
(***************************************************************************)
EnvValues == {<<>>, <<" ">>, <<"k">>, <<" ", "k", " ">>}

LoadApiKey(env) == strip(env)

(***************************************************************************)
(* JSON values of a payload                                                *)
(***************************************************************************)
Str(s) == [t |-> "str", s |-> s]
Num(n) == [t |-> "num", n |-> n]

FieldNames == <<"from_postal", "to_postal", "weight_kg", "pieces">>

(***************************************************************************)
(* MCP tool registry                                                       *)
(***************************************************************************)
ToolRegistry ==
    << [name |-> "globeship.quick_quote",
        input_schema |-> [type |-> "object", required |-> FieldNames]],
       [name |-> "globeship.serviceability_check",
        input_schema |-> [type |-> "object", required |-> FieldNames]] >>

AppVersion == "0.1.1"

(***************************************************************************)
(* Request schema shared by both tools (QuoteRequest), as FastAPI and      *)
(* pydantic enforce it: every field is validated, in declaration order,    *)
(* and every failure is collected into one list.                           *)
(***************************************************************************)
Err(type, field) == [type |-> type, loc |-> <<"body", field>>]

\* A numeric string: an optional sign followed by at least one digit.
IsNumeric(s) ==
    LET c == strip(s)
        d == IF c # <<>> /\ Head(c) = "-" THEN Tail(c) ELSE c
    IN  d # <<>> /\ AllIn(d, Digits)

NumericValue(s) ==
    LET c == strip(s)
    IN  IF Head(c) = "-" THEN 0 - DecimalValue(Tail(c)) ELSE DecimalValue(c)

\* from_postal / to_postal: str = Field(...)
ValidateStr(payload, f) ==
    IF f \notin DOMAIN payload THEN [errors |-> <<Err("missing", f)>>]
    ELSE IF payload[f].t = "str" THEN [errors |-> <<>>, value |-> payload[f].s]
    ELSE [errors |-> <<Err("string_type", f)>>]

\* Coercion of a present value to a number (lax mode).
Coerce(v, parsing) ==
    IF v.t = "num" THEN [ok |-> TRUE, n |-> v.n]
    ELSE IF IsNumeric(v.s) THEN [ok |-> TRUE, n |-> NumericValue(v.s)]
    ELSE [ok |-> FALSE, type |-> parsing]

\* weight_kg: float = Field(..., gt=0)
ValidateWeight(payload) ==
    IF "weight_kg" \notin DOMAIN payload
    THEN [errors |-> <<Err("missing", "weight_kg")>>]
    ELSE LET c == Coerce(payload["weight_kg"], "float_parsing")
         IN  IF ~c.ok THEN [errors |-> <<Err(c.type, "weight_kg")>>]
             ELSE IF c.n > 0 THEN [errors |-> <<>>, value |-> c.n]
             ELSE [errors |-> <<Err("greater_than", "weight_kg")>>]

\* pieces: int = Field(..., ge=1)
ValidatePieces(payload) ==
    IF "pieces" \notin DOMAIN payload
    THEN [errors |-> <<Err("missing", "pieces")>>]
    ELSE LET c == Coerce(payload["pieces"], "int_parsing")
         IN  IF ~c.ok THEN [errors |-> <<Err(c.type, "pieces")>>]
             ELSE IF c.n >= 1 THEN [errors |-> <<>>, value |-> c.n]
             ELSE [errors |-> <<Err("greater_than_equal", "pieces")>>]

\* Validation that stops at the first field that fails.
QuoteRequest_fail_fast(payload) ==
    LET fp == ValidateStr(payload, "from_postal")
        tp == ValidateStr(payload, "to_postal")
        w  == ValidateWeight(payload)
        p  == ValidatePieces(payload)
    IN  IF fp.errors # <<>> THEN [errors |-> fp.errors]
        ELSE IF tp.errors # <<>> THEN [errors |-> tp.errors]
        ELSE IF w.errors # <<>> THEN [errors |-> w.errors]
        ELSE IF p.errors # <<>> THEN [errors |-> p.errors]
        ELSE [errors |-> <<>>,
              value |-> [from_postal |-> fp.value, to_postal |-> tp.value,
                         weight_kg |-> w.value, pieces |-> p.value]]

\* Validation of a JSON object against QuoteRequest.
QuoteRequest(payload) ==
    LET fp == ValidateStr(payload, "from_postal")
        tp == ValidateStr(payload, "to_postal")
        w  == ValidateWeight(payload)
        p  == ValidatePieces(payload)
        errs == fp.errors \o tp.errors \o w.errors \o p.errors
    IN  IF errs # <<>> THEN [errors |-> errs]
        ELSE [errors |-> <<>>,
              value |-> [from_postal |-> fp.value, to_postal |-> tp.value,
                         weight_kg |-> w.value, pieces |-> p.value]]

(***************************************************************************)
(* RESPONSE WRAPPER                                                        *)
(***************************************************************************)
EmptyDict == <<>>
EmptyList == <<>>

\* A generator that yields the same identifier at every call.
uuid4_constant(n) == "uuid-" \o ToString(0)

\* str(uuid.uuid4()): the n-th identifier drawn from the generator.
uuid4(n) == "uuid-" \o ToString(n)

\* datetime.now(timezone.utc).isoformat()
now_iso(t) == t

\* kw holds the optional keyword arguments that were passed; an argument
\* that was not passed has its default, None.  uuid is the identifier
\* uuid4() yields if it is called, ts the reading of the clock.
mcp_response(tool, ok, kw, uuid, ts) ==
    LET rid == IF "request_id" \in DOMAIN kw /\ kw.request_id # ""
               THEN kw.request_id ELSE uuid
    IN  [tool |-> tool,
         ok |-> ok,
         input |-> IF "input_payload" \in DOMAIN kw THEN kw.input_payload
                   ELSE EmptyDict,
         result |-> IF "result" \in DOMAIN kw THEN kw.result ELSE EmptyDict,
         errors |-> IF "errors" \in DOMAIN kw THEN kw.errors ELSE EmptyList,
         meta |-> [request_id |-> rid, ts |-> now_iso(ts),
                   service |-> "nfc-icu-mcp", version |-> AppVersion]]

\* Whether the call of mcp_response draws an identifier from uuid4().
CallsUuid4(kw) == ~("request_id" \in DOMAIN kw /\ kw.request_id # "")

(***************************************************************************)
(* Tool engines                                                            *)
(***************************************************************************)
base == 1250
per_kg == 145
per_piece == 225

\* A quote that depends on how many quotes were served before.
QuickQuoteResult_counter(v) ==
    LET total == base + (v.weight_kg * per_kg) + (v.pieces * per_piece) + issued
    IN  [summary |-> <<"Estimated", total, "CAD (standard, 3-7 days).">>,
         currency |-> "CAD",
         total |-> total,
         service_level |-> "standard",
         estimated_transit_days |-> "3-7",
         breakdown |-> [base |-> base,
                        weight_component |-> v.weight_kg * per_kg,
                        piece_component |-> v.pieces * per_piece]]

QuickQuoteResult(v) ==
    LET total == base + (v.weight_kg * per_kg) + (v.pieces * per_piece)
    IN  [summary |-> <<"Estimated", total, "CAD (standard, 3-7 days).">>,
         currency |-> "CAD",
         total |-> total,
         service_level |-> "standard",
         estimated_transit_days |-> "3-7",
         breakdown |-> [base |-> base,
                        weight_component |-> v.weight_kg * per_kg,
                        piece_component |-> v.pieces * per_piece]]

\* ^\d{5}(-\d{4})?$
us_zip(c) ==
    \/ Len(c) = 5 /\ AllIn(c, Digits)
    \/ /\ Len(c) = 10
       /\ AllIn(SubSeq(c, 1, 5), Digits)
       /\ c[6] = "-"
       /\ AllIn(SubSeq(c, 7, 10), Digits)

\* [A-Za-z]\d[A-Za-z] followed by \d[A-Za-z]\d
CaHalves(a, b) ==
    /\ a[1] \in Letters /\ a[2] \in Digits /\ a[3] \in Letters
    /\ b[1] \in Digits /\ b[2] \in Letters /\ b[3] \in Digits

\* ^[A-Za-z]\d[A-Za-z][ -]?\d[A-Za-z]\d$
ca_postal(c) ==
    \/ Len(c) = 6 /\ CaHalves(SubSeq(c, 1, 3), SubSeq(c, 4, 6))
    \/ /\ Len(c) = 7
       /\ c[4] \in {" ", "-"}
       /\ CaHalves(SubSeq(c, 1, 3), SubSeq(c, 5, 7))

looks_valid(code) ==
    LET c == strip(code)
    IN  us_zip(c) \/ ca_postal(c)

max_weight_kg == 70
max_pieces == 20

ServiceabilityIssues(v) ==
    (IF v.weight_kg > max_weight_kg
     THEN <<"weight_kg exceeds 70kg mock limit">> ELSE <<>>)
    \o (IF v.pieces > max_pieces
        THEN <<"pieces exceeds 20 mock limit">> ELSE <<>>)
    \o (IF ~looks_valid(v.from_postal)
        THEN <<"from_postal format not recognized (expected US ZIP or CA postal)">>
        ELSE <<>>)
    \o (IF ~looks_valid(v.to_postal)
        THEN <<"to_postal format not recognized (expected US ZIP or CA postal)">>
        ELSE <<>>)

ServiceabilityResult(v) ==
    LET issues == ServiceabilityIssues(v)
        eligible == Len(issues) = 0
    IN  [summary |-> IF eligible THEN "Lane is serviceable."
                     ELSE "Lane is NOT serviceable (see issues).",
         eligible |-> eligible,
         issues |-> issues,
         constraints |-> [max_weight_kg |-> max_weight_kg,
                          max_pieces |-> max_pieces]]

(***************************************************************************)
(* Requests                                                                *)
(***************************************************************************)
\* A path is the sequence of its segments: /mcp/tools/x is <<"mcp","tools","x">>.
PathRoot == <<>>
PathAbout == <<"about">>
PathRobots == <<"robots.txt">>
PathManifest == <<"mcp", "manifest">>
PathTools == <<"mcp", "tools">>
PathToolsAlias == <<"tools">>
PathQuickQuote == <<"mcp", "tools", "globeship.quick_quote">>
PathServiceability == <<"mcp", "tools", "globeship.serviceability_check">>
PathUnknownTool == <<"mcp", "tools", "unknown.tool">>

NoHeaders == <<>>

\* request.headers.get(name, default)
HeaderGet(headers, name, default) ==
    IF name \in DOMAIN headers THEN headers[name] ELSE default

Bearer(k) == <<"Bearer", " ">> \o k

NoReq == [method |-> "NONE"]
NoInput == [none |-> TRUE]

(***************************************************************************)
(* AUTH MIDDLEWARE                                                         *)
(***************************************************************************)
\* request.url.path.startswith("/mcp/tools/")
UnderMcpTools(path) == Len(path) >= 3 /\ path[1] = "mcp" /\ path[2] = "tools"

\* The gate of the revision that protects /mcp/tools and all below it,
\* whatever the method.
IsProtected_listing(r) ==
    Len(r.path) >= 2 /\ r.path[1] = "mcp" /\ r.path[2] = "tools"

\* Protect only tool execution endpoints (POST /mcp/tools/...)
IsProtected(r) == r.method = "POST" /\ UnderMcpTools(r.path)

Misconfigured == [status |-> 500,
                  body |-> [detail |-> "Server misconfiguration: API_KEY is not set"]]
Unauthorized == [status |-> 401,
                 body |-> [detail |-> "Unauthorized (missing or invalid X-API-Key)"]]
CallNext == [status |-> 0]

\* dispatch without the check that a key is configured.
dispatch_unconfigured(r, key) ==
    IF IsProtected(r)
    THEN IF HeaderGet(r.headers, "X-API-Key", <<>>) # key THEN Unauthorized
         ELSE CallNext
    ELSE CallNext

\* dispatch reading the key from the Authorization header only.
dispatch_authorization(r, key) ==
    IF IsProtected(r)
    THEN IF key = <<>> THEN Misconfigured
         ELSE IF HeaderGet(r.headers, "Authorization", <<>>) # Bearer(key)
         THEN Unauthorized
         ELSE CallNext
    ELSE CallNext

\* dispatch comparing only the first len(API_KEY) characters of the sent key.
dispatch_prefix(r, key) ==
    LET sent == HeaderGet(r.headers, "X-API-Key", <<>>)
    IN  IF IsProtected(r)
        THEN IF key = <<>> THEN Misconfigured
             ELSE IF Len(sent) < Len(key) \/ SubSeq(sent, 1, Len(key)) # key
             THEN Unauthorized
             ELSE CallNext
        ELSE CallNext

\* APIKeyMiddleware.dispatch: the response of the gate, or CallNext.
dispatch(r, key) ==
    IF IsProtected(r)
    THEN IF key = <<>> THEN Misconfigured
         ELSE IF HeaderGet(r.headers, "X-API-Key", <<>>) # key THEN Unauthorized
         ELSE CallNext
    ELSE CallNext

(***************************************************************************)
(* Routing table, in registration order                                    *)
(***************************************************************************)
Routes ==
    << [method |-> "GET", path |-> PathRoot, endpoint |-> "health_check"],
       [method |-> "GET", path |-> PathAbout, endpoint |-> "about"],
       [method |-> "GET", path |-> PathRobots, endpoint |-> "robots"],
       [method |-> "GET", path |-> PathManifest, endpoint |-> "mcp_manifest"],
       [method |-> "GET", path |-> PathTools, endpoint |-> "mcp_tools"],
       [method |-> "GET", path |-> PathToolsAlias, endpoint |-> "list_tools_simple"],
       [method |-> "POST", path |-> PathQuickQuote,
        endpoint |-> "globeship_quick_quote"],
       [method |-> "POST", path |-> PathServiceability,
        endpoint |-> "globeship_serviceability_check"] >>

NotFound == [status |-> 404, body |-> [detail |-> "Not Found"]]
MethodNotAllowed == [status |-> 405, body |-> [detail |-> "Method Not Allowed"]]

\* The router: the endpoint of the first route that matches path and
\* method; 405 when only the path matches; 404 when nothing does.
Resolve(r) ==
    LET full == {i \in 1..Len(Routes) :
                    Routes[i].path = r.path /\ Routes[i].method = r.method}
        partial == {i \in 1..Len(Routes) : Routes[i].path = r.path}
    IN  IF full # {}
        THEN [found |-> TRUE,
              endpoint |-> Routes[CHOOSE i \in full : \A j \in full : i <= j].endpoint]
        ELSE IF partial # {} THEN [found |-> FALSE, response |-> MethodNotAllowed]
        ELSE [found |-> FALSE, response |-> NotFound]

BodyEndpoints == {"globeship_quick_quote", "globeship_serviceability_check"}

\* The framework's answer to a body that fails QuoteRequest.
ValidationFailure(errs) == [status |-> 422, body |-> [detail |-> errs]]

(***************************************************************************)
(* Endpoints                                                               *)
(***************************************************************************)
health_check(ts) == [status |-> "ok", service |-> "nfc-icu-mcp", ts |-> now_iso(ts)]

mcp_manifest ==
    [schema_version |-> "1.0",
     name |-> "nfc.icu",
     version |-> AppVersion,
     base_url |-> "https://api.nfc.icu",
     homepage |-> "https://nfc.icu",
     tools_endpoint |-> "/mcp/tools",
     capabilities |-> [tools |-> TRUE],
     contact |-> [email |-> "info@nfc.icu"]]

mcp_tools(tools) == [tools |-> tools]

list_tools_simple(tools) == [tools |-> tools]

globeship_quick_quote(v, uuid, ts) ==
    mcp_response("globeship.quick_quote", TRUE,
                 [input_payload |-> v, result |-> QuickQuoteResult(v),
                  errors |-> EmptyList],
                 uuid, ts)

\* The handler reporting eligibility in ok.
globeship_serviceability_check_eligible(v, uuid, ts) ==
    mcp_response("globeship.serviceability_check", ServiceabilityResult(v).eligible,
                 [input_payload |-> v, result |-> ServiceabilityResult(v),
                  errors |-> EmptyList],
                 uuid, ts)

globeship_serviceability_check(v, uuid, ts) ==
    mcp_response("globeship.serviceability_check", TRUE,
                 [input_payload |-> v, result |-> ServiceabilityResult(v),
                  errors |-> EmptyList],
                 uuid, ts)

(***************************************************************************)
(* Inputs                                                                  *)
(***************************************************************************)
GoodKey == <<"k">>
SentKeys == {<<"k">>, <<"x">>, <<"k", "x">>}

Zip == <<"1", "0", "0", "0", "1">>
ZipPadded == <<" ", "1", "0", "0", "0", "1">>
CaCode == <<"V", "6", "B", "1", "A", "1">>
BadCode == <<"1", "0", "0", "0">>

Absent == [t |-> "absent"]

\* The JSON object that holds the fields that are not Absent.
MkPayload(fp, tp, w, p) ==
    LET full == [from_postal |-> fp, to_postal |-> tp, weight_kg |-> w, pieces |-> p]
    IN  [f \in {g \in DOMAIN full : full[g].t # "absent"} |-> full[f]]

ValidPayload == MkPayload(Str(Zip), Str(CaCode), Num(12), Num(2))
NegativeWeightPayload == MkPayload(Str(Zip), Str(CaCode), Num(0 - 1), Num(2))
HeavyPayload == MkPayload(Str(ZipPadded), Str(BadCode), Num(80), Num(25))
EmptyPayload == MkPayload(Absent, Absent, Absent, Absent)

XKey(k) == "X-API-Key" :> k
Authorization(v) == "Authorization" :> v

\* No key, each key alone, and the bearer form of the right key, alone and
\* beside a wrong X-API-Key.
HeaderSets ==
    {NoHeaders} \cup {XKey(k) : k \in SentKeys}
    \cup {Authorization(Bearer(GoodKey)),
          XKey(<<"x">>) @@ Authorization(Bearer(GoodKey))}

Mk(method, path, headers, body) ==
    [method |-> method, path |-> path, headers |-> headers, body |-> body]

\* Every header set on an execution path, with a valid body.
GateRequests ==
    {Mk("POST", path, h, ValidPayload) :
        path \in {PathQuickQuote, PathUnknownTool}, h \in HeaderSets}

\* Discovery endpoints, with and without credentials.
DiscoveryRequests ==
    {Mk("GET", path, h, EmptyPayload) :
        path \in {PathManifest, PathTools, PathToolsAlias},
        h \in {NoHeaders, XKey(GoodKey), XKey(<<"x">>)}}

\* A method the path is not registered for.
MismatchRequests ==
    {Mk("GET", PathQuickQuote, NoHeaders, EmptyPayload),
     Mk("POST", PathTools, NoHeaders, EmptyPayload)}

\* Tool invocations with the configured credential.
InvocationRequests ==
    {Mk("POST", path, XKey(GoodKey), b) :
        path \in {PathQuickQuote, PathServiceability},
        b \in {ValidPayload, NegativeWeightPayload, HeavyPayload, EmptyPayload}}

Requests ==
    GateRequests \cup DiscoveryRequests \cup MismatchRequests \cup InvocationRequests

FromValues == {Absent, Str(Zip), Num(5)}
ToValues == {Absent, Str(CaCode)}
WeightValues == {Absent, Num(12), Num(0), Str(<<"a">>), Str(<<"-", "1">>)}
PiecesValues == {Absent, Num(2), Num(0)}

Payloads ==
    {MkPayload(fp, tp, w, p) :
        fp \in FromValues, tp \in ToValues, w \in WeightValues, p \in PiecesValues}

\* Every payload on one tool; on the other, which shares the schema, the
\* payloads that hold both postal codes.
PayloadRequests ==
    {Mk("POST", PathQuickQuote, XKey(GoodKey), b) : b \in Payloads}
    \cup {Mk("POST", PathServiceability, XKey(GoodKey), b) :
             b \in {q \in Payloads : {"from_postal", "to_postal"} \subseteq DOMAIN q}}

HistoryRequests ==
    {Mk("POST", PathQuickQuote, XKey(GoodKey), ValidPayload),
     Mk("POST", PathServiceability, XKey(GoodKey), HeavyPayload),
     Mk("POST", PathQuickQuote, XKey(GoodKey), NegativeWeightPayload),
     Mk("POST", PathQuickQuote, XKey(<<"x">>), ValidPayload),
     Mk("GET", PathTools, NoHeaders, EmptyPayload),
     Mk("GET", PathRoot, NoHeaders, EmptyPayload)}

\* Invocations that end in an envelope.
EnvelopeRequests ==
    {Mk("POST", PathQuickQuote, XKey(GoodKey), ValidPayload),
     Mk("POST", PathServiceability, XKey(GoodKey), HeavyPayload)}

\* Arguments of a direct call of mcp_response: ok, and the optional
\* keyword arguments that are passed.
BuilderArgs ==
    {[ok |-> TRUE, kw |-> <<>>],
     [ok |-> FALSE, kw |-> <<>>],
     [ok |-> TRUE, kw |-> [errors |-> <<"boom">>]],
     [ok |-> FALSE, kw |-> [errors |-> <<"boom">>, request_id |-> "fixed-id"]],
     [ok |-> TRUE, kw |-> [request_id |-> ""]],
     [ok |-> TRUE, kw |-> [request_id |-> "uuid-1"]]}

(***************************************************************************)
(* The service                                                             *)
(***************************************************************************)
Init ==
    /\ API_KEY \in {LoadApiKey(e) : e \in EnvValues}
    /\ TOOLS = ToolRegistry
    /\ pc = [c \in Clients |-> "idle"]
    /\ req = [c \in Clients |-> NoReq]
    /\ vinput = [c \in Clients |-> NoInput]
    /\ log = <<>>
    /\ issued = 0
    /\ clock = 0
    /\ built = <<>>

\* Requests received and direct calls of the builder made so far.
Started == Len(log) + Cardinality({c \in Clients : pc[c] # "idle"}) + Len(built)

\* The response leaves; the request and all it held are discarded.
Respond(c, status, body, stage) ==
    /\ log' = Append(log, [req |-> req[c], status |-> status, body |-> body,
                           stage |-> stage])
    /\ pc' = [pc EXCEPT ![c] = "idle"]
    /\ req' = [req EXCEPT ![c] = NoReq]
    /\ vinput' = [vinput EXCEPT ![c] = NoInput]

Arrive(c, r, max) ==
    /\ pc[c] = "idle"
    /\ Started < max
    /\ req' = [req EXCEPT ![c] = r]
    /\ pc' = [pc EXCEPT ![c] = "gate"]
    /\ UNCHANGED <<API_KEY, TOOLS, vinput, log, issued, clock, built>>

Receive(c) == \E r \in Requests : Arrive(c, r, MaxRequests)

ReceivePayload(c) == \E r \in PayloadRequests : Arrive(c, r, MaxValidated)

ReceiveInvocation(c) == \E r \in EnvelopeRequests : Arrive(c, r, MaxOps)

ReceiveHistory(c) == \E r \in HistoryRequests : Arrive(c, r, MaxHistory)

\* APIKeyMiddleware.dispatch
Gate(c) ==
    /\ pc[c] = "gate"
    /\ LET d == dispatch(req[c], API_KEY)
       IN  IF d.status = 0
           THEN /\ pc' = [pc EXCEPT ![c] = "route"]
                /\ UNCHANGED <<req, vinput, log>>
           ELSE Respond(c, d.status, d.body, "gate")
    /\ UNCHANGED <<API_KEY, TOOLS, issued, clock, built>>

\* Routing, and validation of the body for the endpoints that declare one.
Route(c) ==
    /\ pc[c] = "route"
    /\ LET m == Resolve(req[c])
       IN  IF ~m.found
           THEN Respond(c, m.response.status, m.response.body, "router")
           ELSE IF m.endpoint \in BodyEndpoints
           THEN LET q == QuoteRequest(req[c].body)
                    f == ValidationFailure(q.errors)
                IN  IF q.errors # <<>>
                    THEN Respond(c, f.status, f.body, "router")
                    ELSE /\ pc' = [pc EXCEPT ![c] = m.endpoint]
                         /\ vinput' = [vinput EXCEPT ![c] = q.value]
                         /\ UNCHANGED <<req, log>>
           ELSE /\ pc' = [pc EXCEPT ![c] = m.endpoint]
                /\ UNCHANGED <<req, vinput, log>>
    /\ UNCHANGED <<API_KEY, TOOLS, issued, clock, built>>

\* A reading of the clock: time may have passed since the last one.
Tick == \E d \in {0, 1} : clock + d <= MaxClock /\ clock' = clock + d

HealthCheck(c) ==
    /\ pc[c] = "health_check"
    /\ Tick
    /\ Respond(c, 200, health_check(clock'), "handler")
    /\ UNCHANGED <<API_KEY, TOOLS, issued, built>>

McpManifest(c) ==
    /\ pc[c] = "mcp_manifest"
    /\ Respond(c, 200, mcp_manifest, "handler")
    /\ UNCHANGED <<API_KEY, TOOLS, issued, clock, built>>

McpTools(c) ==
    /\ pc[c] = "mcp_tools"
    /\ Respond(c, 200, mcp_tools(TOOLS), "handler")
    /\ UNCHANGED <<API_KEY, TOOLS, issued, clock, built>>

ListToolsSimple(c) ==
    /\ pc[c] = "list_tools_simple"
    /\ Respond(c, 200, list_tools_simple(TOOLS), "handler")
    /\ UNCHANGED <<API_KEY, TOOLS, issued, clock, built>>

QuickQuote(c) ==
    /\ pc[c] = "globeship_quick_quote"
    /\ Tick
    /\ issued' = issued + 1
    /\ Respond(c, 200, globeship_quick_quote(vinput[c], uuid4(issued'), clock'),
               "handler")
    /\ UNCHANGED <<API_KEY, TOOLS, built>>

ServiceabilityCheck(c) ==
    /\ pc[c] = "globeship_serviceability_check"
    /\ Tick
    /\ issued' = issued + 1
    /\ Respond(c, 200,
               globeship_serviceability_check(vinput[c], uuid4(issued'), clock'),
               "handler")
    /\ UNCHANGED <<API_KEY, TOOLS, built>>

\* A call of mcp_response from outside the two handlers.
BuilderCall ==
    /\ Started < MaxOps
    /\ \E a \in BuilderArgs :
          /\ Tick
          /\ issued' = IF CallsUuid4(a.kw) THEN issued + 1 ELSE issued
          /\ built' = Append(built,
                 [kw |-> a.kw,
                  env |-> mcp_response("tool", a.ok, a.kw, uuid4(issued'), clock')])
    /\ UNCHANGED <<API_KEY, TOOLS, pc, req, vinput, log>>

Next ==
    \E c \in Clients :
        \/ Receive(c)
        \/ Gate(c)
        \/ Route(c)
        \/ McpManifest(c)
        \/ McpTools(c)
        \/ ListToolsSimple(c)
        \/ QuickQuote(c)
        \/ ServiceabilityCheck(c)

Spec == Init /\ [][Next]_vars

NextValidation ==
    \E c \in Clients :
        \/ ReceivePayload(c)
        \/ Gate(c)
        \/ Route(c)
        \/ QuickQuote(c)
        \/ ServiceabilityCheck(c)

SpecValidation == Init /\ [][NextValidation]_vars

NextHistory ==
    \E c \in Clients :
        \/ ReceiveHistory(c)
        \/ Gate(c)
        \/ Route(c)
        \/ HealthCheck(c)
        \/ McpTools(c)
        \/ QuickQuote(c)
        \/ ServiceabilityCheck(c)

SpecHistory == Init /\ [][NextHistory]_vars

NextBuilder ==
    \/ \E c \in Clients :
          \/ ReceiveInvocation(c)
          \/ Gate(c)
          \/ Route(c)
          \/ QuickQuote(c)
          \/ ServiceabilityCheck(c)
    \/ BuilderCall

SpecBuilder == Init /\ [][NextBuilder]_vars

(***************************************************************************)
(* Vocabulary of the properties                                            *)
(***************************************************************************)
LogIdx == 1..Len(log)
BuiltIdx == 1..Len(built)

\* A POST on a path under /mcp/tools/.
ProtectedRequest(r) ==
    r.method = "POST" /\ Len(r.path) >= 3 /\ SubSeq(r.path, 1, 2) = <<"mcp", "tools">>

SentXKey(r) ==
    IF "X-API-Key" \in DOMAIN r.headers THEN r.headers["X-API-Key"] ELSE <<>>

SentBearer(r) ==
    IF "Authorization" \in DOMAIN r.headers THEN r.headers["Authorization"] ELSE <<>>

CatalogNames == {ToolRegistry[k].name : k \in 1..Len(ToolRegistry)}

EnvelopeFields == {"tool", "ok", "input", "result", "errors", "meta"}

IsEnvelope(b) == DOMAIN b = EnvelopeFields

Required == ToolRegistry[1].input_schema.required

\* Position of a field in the schema's declaration order.
FieldPos(f) == CHOOSE k \in 1..Len(Required) : Required[k] = f

\* The outcome without the correlation id and the timestamp.
Semantic(b) ==
    IF "meta" \in DOMAIN b
    THEN [b EXCEPT !.meta = [service |-> b.meta.service, version |-> b.meta.version]]
    ELSE IF "ts" \in DOMAIN b THEN [b EXCEPT !.ts = 0]
    ELSE b

\* The request_id of each logged response that is an envelope.
AllRequestIds ==
    [i \in LogIdx |-> IF IsEnvelope(log[i].body) THEN log[i].body.meta.request_id
                      ELSE "none"]

\* Identical requests have met identical outcomes.
SameOutcome ==
    \A i, j \in LogIdx :
        log[i].req = log[j].req =>
            /\ log[i].status = log[j].status
            /\ Semantic(log[i].body) = Semantic(log[j].body)

\* Envelopes whose request_id the builder generated differ in it.
FreshIds ==
    /\ \A i, j \in LogIdx :
          i # j /\ IsEnvelope(log[i].body) /\ IsEnvelope(log[j].body)
          => AllRequestIds[i] # AllRequestIds[j]
    /\ \A i, j \in BuiltIdx :
          i # j /\ CallsUuid4(built[i].kw) /\ CallsUuid4(built[j].kw)
          => built[i].env.meta.request_id # built[j].env.meta.request_id
    /\ \A i \in LogIdx, j \in BuiltIdx :
          IsEnvelope(log[i].body) /\ CallsUuid4(built[j].kw)
          => AllRequestIds[i] # built[j].env.meta.request_id

\* A step leaves every response and envelope produced so far as it was.
Preserved ==
    /\ \A i \in LogIdx : Len(log') >= i /\ log'[i] = log[i]
    /\ \A i \in BuiltIdx : Len(built') >= i /\ built'[i] = built[i]

(***************************************************************************)
(* C1: when no credential is configured, every protected request (POST     *)
(* under /mcp/tools/) is answered 500 by the gate, whatever its headers,   *)
(* tool name or body, and never gets past the gate to a handler.           *)
(***************************************************************************)
C1_FailClosed ==
    API_KEY = <<>> =>
        /\ \A i \in LogIdx :
              ProtectedRequest(log[i].req) =>
                 /\ log[i].status = 500
                 /\ log[i].stage = "gate"
                 /\ DOMAIN log[i].body = {"detail"}
        /\ \A c \in Clients : ProtectedRequest(req[c]) => pc[c] = "gate"

\* A protected request for a catalogued tool that carries a key, answered
\* while no key is configured.
C1_Witness ==
    \E i \in LogIdx :
        /\ API_KEY = <<>>
        /\ ProtectedRequest(log[i].req)
        /\ log[i].req.path = PathQuickQuote
        /\ SentXKey(log[i].req) = GoodKey
        /\ log[i].status = 500

(***************************************************************************)
(* C2 as stated: with a credential configured, a protected request that    *)
(* carries the correct credential in X-API-Key or in the bearer header     *)
(* passes the gate.                                                        *)
(***************************************************************************)
C2_EitherHeaderPasses ==
    API_KEY # <<>> =>
        \A i \in LogIdx :
            /\ ProtectedRequest(log[i].req)
            /\ \/ SentXKey(log[i].req) = API_KEY
               \/ SentBearer(log[i].req) = Bearer(API_KEY)
            => log[i].stage # "gate"

(***************************************************************************)
(* C2 amended: with a credential configured, a protected request that      *)
(* carries the correct credential in X-API-Key passes the gate, and an     *)
(* invocation of a catalogued tool with a valid body is then answered by   *)
(* the tool's handler from the body as it was sent.                        *)
(***************************************************************************)
C2_XApiKeyPasses ==
    API_KEY # <<>> =>
        \A i \in LogIdx :
            ProtectedRequest(log[i].req) /\ SentXKey(log[i].req) = API_KEY =>
                /\ log[i].stage # "gate"
                /\ log[i].status \notin {401, 500}
                /\ log[i].req.path = PathQuickQuote /\ log[i].req.body = ValidPayload
                   => /\ log[i].stage = "handler"
                      /\ log[i].body.tool = "globeship.quick_quote"
                      /\ log[i].body.input.weight_kg = 12
                      /\ log[i].body.input.from_postal = Zip

\* A request with the right X-API-Key that the quote handler answered.
C2_Witness ==
    \E i \in LogIdx :
        /\ API_KEY # <<>>
        /\ ProtectedRequest(log[i].req)
        /\ SentXKey(log[i].req) = API_KEY
        /\ log[i].stage = "handler"
        /\ log[i].status = 200

(***************************************************************************)
(* C3: with a credential configured, a protected request whose X-API-Key   *)
(* is absent or differs from the configured key is answered 401 by the     *)
(* gate and never gets past it, and any two such rejections have the same  *)
(* status and body.                                                        *)
(***************************************************************************)
C3_RejectedIdentically ==
    API_KEY # <<>> =>
        /\ \A i \in LogIdx :
              ProtectedRequest(log[i].req) /\ SentXKey(log[i].req) # API_KEY =>
                 log[i].status = 401 /\ log[i].stage = "gate"
        /\ \A i, j \in LogIdx :
              /\ ProtectedRequest(log[i].req) /\ SentXKey(log[i].req) # API_KEY
              /\ ProtectedRequest(log[j].req) /\ SentXKey(log[j].req) # API_KEY
              => log[i].status = log[j].status /\ log[i].body = log[j].body
        /\ \A c \in Clients :
              ProtectedRequest(req[c]) /\ SentXKey(req[c]) # API_KEY => pc[c] = "gate"

\* Two rejections, one of a key that extends the configured one and one of
\* an unrelated key.
C3_Witness ==
    \E i, j \in LogIdx :
        /\ API_KEY # <<>>
        /\ ProtectedRequest(log[i].req) /\ ProtectedRequest(log[j].req)
        /\ SentXKey(log[i].req) = API_KEY \o <<"x">>
        /\ SentXKey(log[j].req) = <<"x">>
        /\ log[i].status = 401 /\ log[j].status = 401

(***************************************************************************)
(* C4: a GET of /mcp/tools, /tools or /mcp/manifest is never answered by   *)
(* the gate; it gets 200 with the full catalog or manifest, the same       *)
(* whether or not a key is configured and whatever key header is sent.     *)
(***************************************************************************)
C4_DiscoveryPublic ==
    \A i \in LogIdx :
        /\ log[i].req.method = "GET" /\ log[i].req.path \in {PathTools, PathToolsAlias}
           => /\ log[i].status = 200
              /\ log[i].stage = "handler"
              /\ log[i].body = [tools |-> ToolRegistry]
        /\ log[i].req.method = "GET" /\ log[i].req.path = PathManifest
           => /\ log[i].status = 200
              /\ log[i].stage = "handler"
              /\ log[i].body = mcp_manifest

\* The catalog served with no key configured and to a sender of a wrong key.
C4_Witness ==
    \E i \in LogIdx :
        /\ log[i].req.method = "GET"
        /\ log[i].req.path = PathTools
        /\ \/ API_KEY = <<>>
           \/ API_KEY # <<>> /\ SentXKey(log[i].req) = <<"x">>
        /\ log[i].status = 200

(***************************************************************************)
(* C5: an invocation of a catalogued tool with the valid credential whose  *)
(* payload fails validation ends in a 4xx response whose body is a         *)
(* ResponseEnvelope (tool, ok, input, result, errors, meta) with           *)
(* ok = false and the field-level messages in errors.                      *)
(***************************************************************************)
C5_EnvelopeOnFailure ==
    API_KEY # <<>> =>
        \A i \in LogIdx :
            /\ ProtectedRequest(log[i].req)
            /\ log[i].req.path[3] \in CatalogNames
            /\ SentXKey(log[i].req) = API_KEY
            /\ QuoteRequest(log[i].req.body).errors # <<>>
            => /\ log[i].status \in 400..499
               /\ IsEnvelope(log[i].body)
               /\ log[i].body.ok = FALSE
               /\ log[i].body.errors # <<>>

(***************************************************************************)
(* C6 as stated: every envelope built, by a handler or by any call of the  *)
(* builder with any arguments, has ok true exactly when errors is empty.   *)
(***************************************************************************)
C6_OkIffNoErrorsAnyArguments ==
    /\ \A i \in LogIdx :
          IsEnvelope(log[i].body) =>
             (log[i].body.ok <=> log[i].body.errors = <<>>)
    /\ \A i \in BuiltIdx : built[i].env.ok <=> built[i].env.errors = <<>>

(***************************************************************************)
(* C6 amended: every envelope a handler of the service builds has ok true  *)
(* exactly when errors is empty (the handlers pass ok = true and no        *)
(* errors, ineligible lanes included).                                     *)
(***************************************************************************)
C6_OkIffNoErrorsInService ==
    \A i \in LogIdx :
        IsEnvelope(log[i].body) =>
           (log[i].body.ok <=> log[i].body.errors = <<>>)

\* An envelope for a lane that is not serviceable, after a direct call of
\* the builder with errors.
C6_Witness ==
    /\ \E i \in LogIdx :
          /\ IsEnvelope(log[i].body)
          /\ log[i].body.tool = "globeship.serviceability_check"
          /\ log[i].body.result.eligible = FALSE
    /\ \E i \in BuiltIdx : built[i].env.errors # <<>>

(***************************************************************************)
(* C7: a validation-failure response names every required field that the   *)
(* payload lacks, in the schema's declaration order, and reports in that   *)
(* same response the violations of weight_kg > 0 and pieces >= 1 by the    *)
(* fields that are present; a payload with any such defect gets that       *)
(* response.                                                               *)
(***************************************************************************)
C7_BatchValidation ==
    API_KEY # <<>> =>
        \A i \in LogIdx :
            LET p == log[i].req.body
                d == log[i].body.detail
                missing == {f \in {Required[k] : k \in 1..Len(Required)} :
                               f \notin DOMAIN p}
                lowWeight == /\ "weight_kg" \in DOMAIN p
                             /\ p["weight_kg"].t = "num"
                             /\ p["weight_kg"].n <= 0
                lowPieces == /\ "pieces" \in DOMAIN p
                             /\ p["pieces"].t = "num"
                             /\ p["pieces"].n < 1
            IN  /\ (missing # {} \/ lowWeight \/ lowPieces) => log[i].status = 422
                /\ log[i].status = 422 =>
                     /\ \A f \in missing :
                           \E k \in 1..Len(d) :
                               d[k].type = "missing" /\ d[k].loc = <<"body", f>>
                     /\ \A k1, k2 \in 1..Len(d) :
                           k1 < k2 => FieldPos(d[k1].loc[2]) < FieldPos(d[k2].loc[2])
                     /\ lowWeight =>
                           \E k \in 1..Len(d) :
                               /\ d[k].type = "greater_than"
                               /\ d[k].loc = <<"body", "weight_kg">>
                     /\ lowPieces =>
                           \E k \in 1..Len(d) :
                               /\ d[k].type = "greater_than_equal"
                               /\ d[k].loc = <<"body", "pieces">>

\* A response to a payload that lacks both postal codes and breaks both
\* numeric constraints.
C7_Witness ==
    \E i \in LogIdx :
        /\ log[i].status = 422
        /\ DOMAIN log[i].req.body = {"weight_kg", "pieces"}
        /\ log[i].req.body["weight_kg"] = Num(0)
        /\ log[i].req.body["pieces"] = Num(0)
        /\ Len(log[i].body.detail) = 4

(***************************************************************************)
(* C8: the status of the response to a POST /mcp/tools/{tool_name} is 500  *)
(* if no credential is configured; else 401 if the credential is missing   *)
(* or invalid; else 404 if the tool is not in the catalog; else 501 if it  *)
(* has no engine; else 400 if validation fails; else 200 with ok = true.   *)
(***************************************************************************)
C8_StatusOrder ==
    \A i \in LogIdx :
        LET r == log[i].req
            expected ==
                IF API_KEY = <<>> THEN 500
                ELSE IF SentXKey(r) # API_KEY THEN 401
                ELSE IF r.path[3] \notin CatalogNames THEN 404
                ELSE IF ~Resolve(r).found THEN 501
                ELSE IF QuoteRequest(r.body).errors # <<>> THEN 400
                ELSE 200
        IN  ProtectedRequest(r) =>
               /\ log[i].status = expected
               /\ log[i].status = 200 => log[i].body.ok = TRUE

(***************************************************************************)
(* C9: the catalog and the configured credential never change, and two     *)
(* invocations with the same request get the same status and the same      *)
(* body apart from meta.request_id and the timestamp, whatever requests    *)
(* ran before, between or concurrently.                                    *)
(***************************************************************************)
C9_Stateless ==
    /\ []SameOutcome
    /\ [][TOOLS' = TOOLS /\ API_KEY' = API_KEY]_vars

\* The same quote requested twice with another invocation answered in
\* between, the two answers carrying different correlation ids.
C9_Witness ==
    /\ Len(log) = 3
    /\ log[1].req = log[3].req
    /\ log[2].req # log[1].req
    /\ log[1].req.path = PathQuickQuote
    /\ log[1].stage = "handler"
    /\ log[2].stage = "handler"
    /\ log[1].body.meta.request_id # log[3].body.meta.request_id

(***************************************************************************)
(* C10 as stated: every call of the envelope builder stamps a newly        *)
(* generated request_id, so no two envelopes carry the same one.           *)
(***************************************************************************)
C10_FreshIdEveryCall ==
    /\ \A i, j \in LogIdx :
          i # j /\ IsEnvelope(log[i].body) /\ IsEnvelope(log[j].body)
          => AllRequestIds[i] # AllRequestIds[j]
    /\ \A i, j \in BuiltIdx :
          i # j => built[i].env.meta.request_id # built[j].env.meta.request_id
    /\ \A i \in LogIdx, j \in BuiltIdx :
          IsEnvelope(log[i].body) => AllRequestIds[i] # built[j].env.meta.request_id

(***************************************************************************)
(* C10 amended: every call of the builder that is given no request_id (or  *)
(* an empty one), as every call by a handler is, stamps a newly generated  *)
(* one, so no two such envelopes carry the same request_id; and building   *)
(* an envelope never changes one built before.                             *)
(***************************************************************************)
C10_FreshIdWhenNoneGiven ==
    /\ []FreshIds
    /\ [][Preserved]_vars

\* An envelope from a handler and two from direct calls, one given no
\* request_id and one given its own.
C10_Witness ==
    /\ Len(log) >= 1
    /\ IsEnvelope(log[1].body)
    /\ \E i, j \in BuiltIdx :
          /\ CallsUuid4(built[i].kw)
          /\ ~CallsUuid4(built[j].kw)

====
